---- MODULE Spec2Model ----
(***************************************************************************)
(* Screenshot history store of mcp-screenshot                              *)
(* (src/mcp_screenshot/core/history.py, class ScreenshotHistory).          *)
(*                                                                         *)
(* The store is one SQLite connection (tables screenshots,                 *)
(* screenshots_fts, search_history; AUTOINCREMENT counter of screenshots)  *)
(* plus a storage directory of copied image files.  The connection sees    *)
(* its own uncommitted writes; `committed` is what the database file       *)
(* holds.  Python's sqlite3 opens a transaction implicitly before the      *)
(* first INSERT/UPDATE/DELETE and keeps it open until commit() or          *)
(* rollback() is called on the connection.                                 *)
(***************************************************************************)
EXTENDS Integers, Sequences, FiniteSets, TLC

\* ---------------------------------------------------------------- bounds
MaxSeq == 2          \* largest id the AUTOINCREMENT counter may hand out
MaxHistory == 2      \* largest number of rows in search_history
MaxTicks == 1        \* clock readings after the first within one day
MaxDays == 1         \* whole days the clock may advance
MantissaBits == 12   \* significand bits of the modelled floats
MaxImages == 4       \* longest list of fingerprints that is grouped

\* ------------------------------------------------------ program constants
SecondsPerDay == 86400               \* history.py:523  days * 86400
TicksPerSecond == 2                  \* clock readings per strftime second
TicksPerDay == SecondsPerDay * TicksPerSecond

\* ------------------------------------------------------------ input sets
NULL == "NULL"                       \* Python None / SQL NULL (text columns)
NoDate == -1                         \* Python None for date_from / date_to
NoDescription == <<>>                \* description=None: no tokens indexed
NoHash == <<>>                       \* Python None / SQL NULL for a fingerprint
BadQuery == "\""                     \* a string the FTS5 parser rejects
Contents == {"imgA", "imgB", "junk"} \* file bytes; "junk" is not an image
Paths == {<<"a", "x.png">>, <<"b", "x.png">>}
Descriptions == {<<"red">>}
Regions == {NULL, "left"}            \* region stored with a record
RegionFilters == {NULL, "", "left"}  \* region argument of search
Queries == {"red", "left", BadQuery}
Limits == {1, 2}
Offsets == {0, 1}
Days == {0, 1}

\* fingerprints: the 16 hex digits of str(imagehash.average_hash(img))
HashLen == 16                        \* image_similarity.py:127  16 hex chars
HashBits == 64                       \* image_similarity.py:128  distance / 64.0
CandidateLimit == 1000               \* history.py:671, 682  limit=1000
HexDigits == 0..15
hashA == [i \in 1..HashLen |-> 15]
hashB == [i \in 1..HashLen |-> 0]
hashC == [i \in 1..HashLen |-> IF i <= 14 THEN 15 ELSE 0]
\* fingerprints at every distance 0..64 from one another: k leading digits
\* f, then zeros, then a last digit y
Fingerprint(k, y) ==
    [i \in 1..HashLen |-> IF i <= k THEN 15 ELSE IF i = HashLen THEN y ELSE 0]
Fingerprints == {Fingerprint(k, y) : k \in {0, 5, 10, 14, 15}, y \in {0, 1, 3, 7, 15}}
\* strings int(s, 16) rejects: None or '' and one holding the letter g
notHex == [i \in 1..HashLen |-> 16]
Unparsable == {NoHash, notHex}
\* "imgC" looks like "imgA"; "imgT" opens as an image but cannot be decoded
Images == {"imgA", "imgB", "imgC", "imgT"}

VARIABLES
    screenshots,      \* rows of table screenshots, as the connection sees it
    screenshots_fts,  \* rows of the FTS5 table, as the connection sees it
    search_history,   \* rows of table search_history (in id order)
    sqlite_sequence,  \* AUTOINCREMENT counter of table screenshots
    committed,        \* the four items above as last committed
    storage,          \* storage_dir: stored file name -> file content
    now,              \* the clock, in ticks
    ret,              \* the last call: which operation, what it returned
    callers           \* add_screenshot calls in progress on connections of
                      \* their own: caller -> where the call stands

vars == <<screenshots, screenshots_fts, search_history, sqlite_sequence,
          committed, storage, now, ret, callers>>

db == <<screenshots, screenshots_fts, search_history, sqlite_sequence>>

\* ------------------------------------------------------------- helpers
Ids(rows) == {r.id : r \in rows}
RowIds(rows) == {r.rowid : r \in rows}

\* datetime.now(); strftime('%Y%m%d_%H%M%S') keeps whole seconds only
strftime(t) == t \div TicksPerSecond

\* os.path.basename(file_path)
basename(file_path) == file_path[2]

\* f"{timestamp.strftime(...)}_{filename}"
storage_filename(t, file_path) == <<strftime(t), basename(file_path)>>

\* os.path.join(self.storage_dir, storage_filename)
storage_path(fname) == <<"storage_dir", fname>>

\* SHA-256 of the file bytes (collision-free on the modelled contents)
calculate_file_hash(content) == <<"sha256", content>>

\* Image.open(file_path) succeeds
IsImage(content) == content # "junk"

\* hashing never fails: an image that cannot be decoded gets a fingerprint
compute_hash_any(content) ==
    CASE content = "imgB" -> hashB
      [] content = "imgC" -> hashC
      [] OTHER -> hashA

\* ImageSimilarity.compute_hash(image_path): the fingerprint as a string,
\* None when opening or hashing the image raises
compute_hash(content) ==
    CASE content = "imgA" -> hashA
      [] content = "imgB" -> hashB
      [] content = "imgC" -> hashC
      [] OTHER -> NoHash

\* self.conn.commit(): the connection's view becomes the database file
Commit(s, f, h, q) ==
    [screenshots |-> s, screenshots_fts |-> f, search_history |-> h,
     sqlite_sequence |-> q]

\* the except clause re-raises without rollback(): what was written stays
\* in the open transaction
rollback_missing(s, f, h, q) ==
    /\ screenshots' = s
    /\ screenshots_fts' = f
    /\ search_history' = h
    /\ sqlite_sequence' = q
    /\ UNCHANGED committed

\* except: self.conn.rollback(); raise.  (s, f, h, q) is the connection's
\* view when the exception is raised; the rollback discards it and the
\* view is the database file again.
rollback(s, f, h, q) ==
    /\ screenshots' = committed.screenshots
    /\ screenshots_fts' = committed.screenshots_fts
    /\ search_history' = committed.search_history
    /\ sqlite_sequence' = committed.sqlite_sequence
    /\ UNCHANGED committed

\* the duplicate lookup finds nothing
existing_unchecked(file_hash) == {}

\* the duplicate lookup compares with != instead of =
existing_other_hash(file_hash) == {r \in screenshots : r.file_hash # file_hash}

\* SELECT id, storage_path FROM screenshots WHERE file_hash = ?
existing(file_hash) == {r \in screenshots : r.file_hash = file_hash}

\* the file is removed without asking whether it is there
exists_assumed(path) == TRUE

\* os.path.exists(storage_path)
exists(path) == path \in DOMAIN storage

\* shutil.copy2(file_path, storage_path): creates or overwrites the target
copy2(content, path) == (path :> content) @@ storage

\* the processes that share the database file, and a process between calls
Callers == {"c1", "c2"}
Idle == [pc |-> "idle"]

Init ==
    /\ screenshots = {}
    /\ screenshots_fts = {}
    /\ search_history = <<>>
    /\ sqlite_sequence = 0
    /\ committed = Commit({}, {}, <<>>, 0)
    /\ storage = <<>>
    /\ now = 0
    /\ ret = [op |-> "init", raised |-> ""]
    /\ callers = [c \in Callers |-> Idle]

\* ------------------------------------------------------ add_screenshot
\* perceptual_hash = None; if compute_hash: perceptual_hash =
\* similarity.compute_hash(file_path)
perceptual_hash(content, do_hash) ==
    IF do_hash THEN compute_hash(content) ELSE NoHash

\* id INTEGER PRIMARY KEY without AUTOINCREMENT: one more than the largest
\* id in the table
lastrowid_max_rowid(rows, seq) ==
    IF rows = {} THEN 1
    ELSE (CHOOSE i \in Ids(rows) : \A k \in Ids(rows) : k <= i) + 1

\* cursor.lastrowid after INSERT INTO screenshots; id INTEGER PRIMARY KEY
\* AUTOINCREMENT: one more than the largest id the table ever held
lastrowid(rows, seq) == seq + 1

\* do_hash: the compute_hash argument
\* fts_fault: the INSERT INTO screenshots_fts statement raises
add_screenshot(file_path, content, description, region, do_hash, fts_fault) ==
    LET file_hash == calculate_file_hash(content)
        fname == storage_filename(now, file_path)
        id == lastrowid(screenshots, sqlite_sequence)
        row == [id |-> id, filename |-> fname,
                storage_path |-> storage_path(fname),
                file_hash |-> file_hash, region |-> region,
                timestamp |-> now, description |-> description,
                perceptual_hash |-> perceptual_hash(content, do_hash)]
        fts == [rowid |-> id, filename |-> fname,
                description |-> description, region |-> region]
    IN
    /\ UNCHANGED callers
    /\ IF existing(file_hash) # {}
       THEN \* already in history: return existing[0]
            /\ ret' = [op |-> "add_screenshot", content |-> content,
                       description |-> description,
                       raised |-> "", existing |-> TRUE,
                       value |-> (CHOOSE r \in existing(file_hash) : TRUE).id]
            /\ UNCHANGED <<db, committed, storage, now>>
       ELSE /\ sqlite_sequence < MaxSeq
            /\ storage' = copy2(content, storage_path(fname))
            /\ UNCHANGED now
            /\ IF ~IsImage(content)
               THEN \* Image.open raises before any statement ran
                    /\ rollback(screenshots, screenshots_fts, search_history,
                                sqlite_sequence)
                    /\ ret' = [op |-> "add_screenshot", content |-> content,
                               description |-> description,
                               existing |-> FALSE, value |-> 0, raised |-> "UnidentifiedImageError"]
               ELSE IF \E r \in screenshots :
                          r.filename = fname \/ r.file_hash = file_hash
               THEN \* INSERT INTO screenshots: filename, file_hash are UNIQUE
                    /\ rollback(screenshots, screenshots_fts, search_history,
                                sqlite_sequence)
                    /\ ret' = [op |-> "add_screenshot", content |-> content,
                               description |-> description,
                               existing |-> FALSE, value |-> 0, raised |-> "IntegrityError"]
               ELSE IF fts_fault
               THEN \* the row is inserted, INSERT INTO screenshots_fts raises
                    /\ rollback(screenshots \cup {row}, screenshots_fts,
                                search_history, id)
                    /\ ret' = [op |-> "add_screenshot", content |-> content,
                               description |-> description,
                               existing |-> FALSE, value |-> 0, raised |-> "OperationalError"]
               ELSE /\ screenshots' = screenshots \cup {row}
                    /\ screenshots_fts' = screenshots_fts \cup {fts}
                    /\ sqlite_sequence' = id
                    /\ UNCHANGED search_history
                    /\ committed' = Commit(screenshots', screenshots_fts',
                                           search_history', sqlite_sequence')
                    /\ ret' = [op |-> "add_screenshot", content |-> content,
                               description |-> description,
                               raised |-> "", existing |-> FALSE, value |-> id]

\* ------------------------------- add_screenshot by concurrent callers
\* Each caller has a connection of its own to the same database file.  A
\* connection reads what is committed; SQLite lets one connection write at
\* a time, so the INSERTs and the commit of one call are one step for the
\* others.  The call is split where another caller can run in between:
\* after the duplicate lookup and after the copy.

\* file_hash = ...; SELECT id ... WHERE file_hash = ?; if existing: return
add_lookup(c, file_path, content, description, region) ==
    LET found == existing(calculate_file_hash(content)) IN
    /\ callers[c].pc = "idle"
    /\ callers' = [callers EXCEPT ![c] =
           IF found # {}
           THEN [pc |-> "done", content |-> content, looked_up |-> TRUE,
                 raised |-> "", value |-> (CHOOSE r \in found : TRUE).id]
           ELSE [pc |-> "copy", content |-> content, file_path |-> file_path,
                 description |-> description, region |-> region]]
    /\ UNCHANGED <<db, committed, storage, now, ret>>

\* timestamp = datetime.now(); shutil.copy2(file_path, storage_path);
\* Image.open, compute_hash
add_copy(c) ==
    LET call == callers[c]
        fname == storage_filename(now, call.file_path)
    IN
    /\ call.pc = "copy"
    /\ storage' = copy2(call.content, storage_path(fname))
    /\ callers' = [callers EXCEPT ![c] =
           [pc |-> "insert", content |-> call.content, filename |-> fname,
            timestamp |-> now, description |-> call.description,
            region |-> call.region]]
    /\ UNCHANGED <<db, committed, now, ret>>

\* INSERT INTO screenshots; INSERT INTO screenshots_fts; commit() -- or
\* the INSERT fails on a UNIQUE column: rollback(); raise
add_insert(c) ==
    LET call == callers[c]
        file_hash == calculate_file_hash(call.content)
        id == lastrowid(screenshots, sqlite_sequence)
        row == [id |-> id, filename |-> call.filename,
                storage_path |-> storage_path(call.filename),
                file_hash |-> file_hash, region |-> call.region,
                timestamp |-> call.timestamp,
                description |-> call.description,
                perceptual_hash |-> perceptual_hash(call.content, TRUE)]
        fts == [rowid |-> id, filename |-> call.filename,
                description |-> call.description, region |-> call.region]
    IN
    /\ call.pc = "insert"
    /\ UNCHANGED <<storage, now, ret>>
    /\ IF \E r \in screenshots :
              r.filename = call.filename \/ r.file_hash = file_hash
       THEN /\ rollback(screenshots, screenshots_fts, search_history,
                        sqlite_sequence)
            /\ callers' = [callers EXCEPT ![c] =
                   [pc |-> "done", content |-> call.content,
                    looked_up |-> FALSE, raised |-> "IntegrityError",
                    value |-> 0]]
       ELSE /\ sqlite_sequence < MaxSeq
            /\ screenshots' = screenshots \cup {row}
            /\ screenshots_fts' = screenshots_fts \cup {fts}
            /\ sqlite_sequence' = id
            /\ UNCHANGED search_history
            /\ committed' = Commit(screenshots', screenshots_fts',
                                   search_history', sqlite_sequence')
            /\ callers' = [callers EXCEPT ![c] =
                   [pc |-> "done", content |-> call.content,
                    looked_up |-> FALSE, raised |-> "", value |-> id]]

\* the call returns or raises to its caller
add_return(c) ==
    /\ callers[c].pc = "done"
    /\ ret' = [op |-> "add_screenshot", content |-> callers[c].content,
               description |-> NoDescription, raised |-> callers[c].raised,
               existing |-> callers[c].looked_up, value |-> callers[c].value]
    /\ callers' = [callers EXCEPT ![c] = Idle]
    /\ UNCHANGED <<db, committed, storage, now>>

\* ------------------------------------------------------------- search
Range(seq) == {seq[i] : i \in 1..Len(seq)}

\* tokens the 'porter unicode61' tokenizer indexes for one FTS row
\* (columns filename, description, region)
Tokens(f) ==
    {basename(<<"", f.filename[2]>>)} \cup Range(f.description)
        \cup (IF f.region \in {NULL, ""} THEN {} ELSE {f.region})

DocLen(f) ==
    1 + Len(f.description) + (IF f.region \in {NULL, ""} THEN 0 ELSE 1)

\* screenshots_fts MATCH ? for a one-term query
Match(f, query) == query \in Tokens(f)

\* bm25(screenshots_fts): negative, lower is better; for a one-term query
\* every matching row has the same idf and term count, so the score is
\* ordered by document length (shorter rows score better)
bm25(f) == 0 - (12 \div DocLen(f))

\* the query reads the index alone, without the join to screenshots
SearchRows_index_only(query, date_from, date_to, region) ==
    {[id |-> f.rowid, filename |-> f.filename, region |-> f.region,
      timestamp |-> 0, description |-> f.description, rank |-> bm25(f)] :
        f \in {x \in screenshots_fts :
            /\ Match(x, query)
            /\ (region \notin {NULL, ""} => x.region = region)}}

\* the query without the region clause
SearchRows_unfiltered(query, date_from, date_to, region) ==
    {[id |-> s.id, filename |-> s.filename, region |-> s.region,
      timestamp |-> s.timestamp, description |-> s.description,
      rank |-> bm25(f)] :
        <<s, f>> \in {x \in screenshots \X screenshots_fts :
            /\ x[1].id = x[2].rowid
            /\ Match(x[2], query)
            /\ (date_from # NoDate => x[1].timestamp >= date_from)
            /\ (date_to # NoDate => x[1].timestamp <= date_to)}}

\* FROM screenshots s JOIN screenshots_fts fts ON s.id = fts.rowid
\* WHERE screenshots_fts MATCH ? [AND s.timestamp >= ?] [AND s.timestamp <= ?]
\* [AND s.region = ?]; a filter is added only when its argument is truthy
SearchRows(query, date_from, date_to, region) ==
    {[id |-> s.id, filename |-> s.filename, region |-> s.region,
      timestamp |-> s.timestamp, description |-> s.description,
      rank |-> bm25(f)] :
        <<s, f>> \in {x \in screenshots \X screenshots_fts :
            /\ x[1].id = x[2].rowid
            /\ Match(x[2], query)
            /\ (date_from # NoDate => x[1].timestamp >= date_from)
            /\ (date_to # NoDate => x[1].timestamp <= date_to)
            /\ (region \notin {NULL, ""} => x[1].region = region)}}

\* ORDER BY rank: every order of the rows with non-decreasing rank
\* (SQLite leaves the order of equal ranks open)
OrderByRank(rows) ==
    {o \in [1..Cardinality(rows) -> rows] :
        /\ \A i, j \in DOMAIN o : i # j => o[i] # o[j]
        /\ \A i, j \in DOMAIN o : i < j => o[i].rank <= o[j].rank}

Min(a, b) == IF a < b THEN a ELSE b

\* LIMIT ? OFFSET ?
LimitOffset(o, limit, offset) == SubSeq(o, offset + 1, Min(offset + limit, Len(o)))

\* UPDATE search_history SET results_count = ? without the WHERE clause
update_results_count_all(history, n) ==
    [i \in DOMAIN history |-> [history[i] EXCEPT !.results_count = n]]

\* UPDATE search_history SET results_count = ? WHERE id = last_insert_rowid()
update_results_count(history, n) ==
    [history EXCEPT ![Len(history)].results_count = n]

search(query, limit, offset, date_from, date_to, region) ==
    /\ Len(search_history) < MaxHistory
    /\ UNCHANGED <<screenshots, screenshots_fts, sqlite_sequence, storage, now,
                   callers>>
    /\ IF query = BadQuery
       THEN \* the INSERT into search_history is done, MATCH raises, and the
            \* except clause re-raises without rollback
            /\ search_history' =
                   Append(search_history, [query |-> query, results_count |-> 0])
            /\ UNCHANGED committed
            /\ ret' = [op |-> "search", raised |-> "OperationalError",
                       query |-> query, region |-> region, value |-> <<>>]
       ELSE \E o \in OrderByRank(SearchRows(query, date_from, date_to, region)) :
            LET results == LimitOffset(o, limit, offset) IN
            /\ search_history' =
                   update_results_count(
                       Append(search_history,
                              [query |-> query, results_count |-> 0]),
                       Len(results))
            /\ committed' = Commit(screenshots, screenshots_fts,
                                   search_history', sqlite_sequence)
            /\ ret' = [op |-> "search", raised |-> "", query |-> query,
                       region |-> region, value |-> results]

\* ---------------------------------------------------------- get_by_id
\* the row with that id, as a set (empty: None)
get_by_id(screenshot_id) == {r \in screenshots : r.id = screenshot_id}

\* os.remove(path) for each path in paths
remove(paths) == [p \in (DOMAIN storage) \ paths |-> storage[p]]

\* ---------------------------------------------------- delete_screenshot
\* remove_fault: os.remove raises although the file exists
delete_screenshot(screenshot_id, remove_fault) ==
    LET row == {r \in screenshots : r.id = screenshot_id} IN
    /\ UNCHANGED <<screenshots_fts, search_history, sqlite_sequence, now,
                   callers>>
    /\ IF row = {}
       THEN /\ ret' = [op |-> "delete_screenshot", raised |-> "",
                       screenshot_id |-> screenshot_id, existed |-> FALSE,
                       value |-> FALSE]
            /\ UNCHANGED <<screenshots, committed, storage>>
       ELSE LET path == (CHOOSE r \in row : TRUE).storage_path IN
            \* DELETE FROM screenshots WHERE id = ?; commit()
            /\ screenshots' = screenshots \ row
            /\ committed' = Commit(screenshots', screenshots_fts,
                                   search_history, sqlite_sequence)
            /\ IF exists(path) /\ (path \notin DOMAIN storage \/ remove_fault)
               THEN \* os.remove raises; rollback() after the commit undoes
                    \* nothing
                    /\ UNCHANGED storage
                    /\ ret' = [op |-> "delete_screenshot", raised |-> "OSError",
                               screenshot_id |-> screenshot_id,
                               existed |-> TRUE, value |-> FALSE]
               ELSE /\ storage' = IF exists(path) THEN remove({path}) ELSE storage
                    /\ ret' = [op |-> "delete_screenshot", raised |-> "",
                               screenshot_id |-> screenshot_id,
                               existed |-> (path \in DOMAIN storage),
                               value |-> TRUE]

\* ----------------------------------------------- cleanup_old_screenshots
\* every order in which the SELECT may return the rows
FetchAll(rows) ==
    {o \in [1..Cardinality(rows) -> rows] :
        \A i, j \in DOMAIN o : i # j => o[i] # o[j]}

\* days * 3600: hours taken for days
cutoff_time_hours(days) == now - days * 3600 * TicksPerSecond

cutoff_time(days) == now - days * SecondsPerDay * TicksPerSecond

\* WHERE timestamp <= ?
expired_inclusive(days) == {r \in screenshots : r.timestamp <= cutoff_time(days)}

\* SELECT id, storage_path FROM screenshots WHERE timestamp < ?
expired(days) == {r \in screenshots : r.timestamp < cutoff_time(days)}

\* fail_at: position in to_delete whose os.remove raises (0: none does)
cleanup_old_screenshots(days, to_delete, fail_at) ==
    /\ to_delete \in FetchAll(expired(days))
    /\ fail_at \in 0..Len(to_delete)
    /\ fail_at > 0 => exists(to_delete[fail_at].storage_path)
    /\ UNCHANGED <<now, callers>>
    /\ IF fail_at = 0
       THEN /\ storage' = remove({to_delete[i].storage_path :
                                     i \in 1..Len(to_delete)})
            /\ screenshots' = screenshots \ Range(to_delete)
            /\ UNCHANGED <<screenshots_fts, search_history, sqlite_sequence>>
            /\ committed' = Commit(screenshots', screenshots_fts,
                                   search_history, sqlite_sequence)
            /\ ret' = [op |-> "cleanup_old_screenshots", raised |-> "",
                       days |-> days, value |-> Len(to_delete)]
       ELSE \* files before fail_at are gone; rollback() restores the rows
            /\ storage' = remove({to_delete[i].storage_path :
                                     i \in 1..(fail_at - 1)})
            /\ rollback(screenshots \ {to_delete[i] : i \in 1..(fail_at - 1)},
                        screenshots_fts, search_history, sqlite_sequence)
            /\ ret' = [op |-> "cleanup_old_screenshots", raised |-> "OSError",
                       days |-> days, value |-> 0]

\* ------------------------------------------------------------ get_recent
\* SELECT ... FROM screenshots WHERE 1=1 [AND region = ?]
\* ORDER BY timestamp DESC LIMIT ?: the lists it may return
get_recent(limit, region) ==
    LET rows == {r \in screenshots :
                    region \notin {NULL, ""} => r.region = region}
    IN {SubSeq(o, 1, Min(limit, Len(o))) :
           o \in {x \in FetchAll(rows) :
                     \A i, j \in DOMAIN x :
                         i < j => x[i].timestamp >= x[j].timestamp}}

\* get_recent and get_by_id called on their own
call_get_recent(limit, region) ==
    /\ \E res \in get_recent(limit, region) :
          ret' = [op |-> "get_recent", raised |-> "", region |-> region,
                  value |-> res]
    /\ UNCHANGED <<db, committed, storage, now, callers>>

call_get_by_id(screenshot_id) ==
    /\ ret' = [op |-> "get_by_id", raised |-> "",
               screenshot_id |-> screenshot_id,
               value |-> get_by_id(screenshot_id)]
    /\ UNCHANGED <<db, committed, storage, now, callers>>

\* ------------------------------------------------- floating point
\* Python floats are IEEE 754 binary64: a significand of 53 bits, every
\* operation rounded to nearest, ties to even.  The model keeps the format
\* and the rounding and narrows the significand to MantissaBits bits.  A
\* float is zero or m * 2^e with 2^(MantissaBits-1) <= m < 2^MantissaBits;
\* no modelled value is negative.
FZero == [m |-> 0, e |-> 0]

\* drop low bits of n * 2^e until MantissaBits + 1 are left; st records
\* whether a dropped bit (or a division remainder) was not zero
RECURSIVE ShiftDown(_, _, _)
ShiftDown(n, e, st) ==
    IF n < 2^(MantissaBits + 1) THEN <<n, e, st>>
    ELSE ShiftDown(n \div 2, e + 1, st \/ n % 2 = 1)

RECURSIVE ShiftUp(_, _)
ShiftUp(n, e) ==
    IF n >= 2^(MantissaBits - 1) THEN [m |-> n, e |-> e]
    ELSE ShiftUp(n * 2, e - 1)

\* the float nearest to n * 2^e (st: a little more than that), ties to even
Round(n, e, st) ==
    IF n = 0 THEN FZero
    ELSE IF n < 2^MantissaBits THEN ShiftUp(n, e)
    ELSE LET t == ShiftDown(n, e, st)
             m == t[1] \div 2
             up == t[1] % 2 = 1 /\ (t[3] \/ m % 2 = 1)
             r == IF up THEN m + 1 ELSE m
         IN IF r = 2^MantissaBits
            THEN [m |-> 2^(MantissaBits - 1), e |-> t[2] + 2]
            ELSE [m |-> r, e |-> t[2] + 1]

\* float(n) of a small non-negative integer
Float(n) == Round(n, 0, FALSE)

\* a + b
fadd(a, b) ==
    IF a.m = 0 THEN b
    ELSE IF b.m = 0 THEN a
    ELSE LET hi == IF a.e >= b.e THEN a ELSE b
             lo == IF a.e >= b.e THEN b ELSE a
             d == hi.e - lo.e
         IN IF d > MantissaBits + 1
            THEN hi
            ELSE Round(hi.m * 2^d + lo.m, lo.e, FALSE)

\* a * b
fmul(a, b) == Round(a.m * b.m, a.e + b.e, FALSE)

\* a / b, b not zero
fdiv(a, b) ==
    LET n == a.m * 2^(MantissaBits + 2) IN
    Round(n \div b.m, a.e - b.e - (MantissaBits + 2), n % b.m # 0)

\* a - b for a >= b
fsub(a, b) ==
    IF b.m = 0 THEN a
    ELSE LET d == a.e - b.e IN
         IF d > MantissaBits + 1
         THEN a
         ELSE Round(a.m * 2^d - b.m, b.e, FALSE)

\* a >= b
fge(a, b) ==
    IF b.m = 0 THEN TRUE
    ELSE IF a.m = 0 THEN FALSE
    ELSE a.e > b.e \/ (a.e = b.e /\ a.m >= b.m)

\* a > 0
fpos(a) == a.m > 0

\* the literal num/den, e.g. 0.1
Literal(num, den) == fdiv(Float(num), Float(den))

\* ----------------------------------------------------- ImageSimilarity
\* bit i (0..3) of a hex digit
Bit(x, i) == (x \div 2^i) % 2

\* the ones of x | y are counted instead of those of x ^ y
PopCountOr(x, y) ==
    LET set(i) == IF Bit(x, i) = 1 \/ Bit(y, i) = 1 THEN 1 ELSE 0 IN
    set(0) + set(1) + set(2) + set(3)

\* bin(x ^ y).count('1') for two hex digits
PopCountXor(x, y) ==
    LET differs(i) == IF Bit(x, i) # Bit(y, i) THEN 1 ELSE 0 IN
    differs(0) + differs(1) + differs(2) + differs(3)

\* int(hash, 16) succeeds
IsHex(hash) ==
    /\ hash # NoHash
    /\ DOMAIN hash = 1..Len(hash)
    /\ \A i \in DOMAIN hash : hash[i] \in HexDigits

Max(a, b) == IF a > b THEN a ELSE b

\* hex digit i of int(hash, 16), counted from the right
DigitAt(hash, i) == IF i <= Len(hash) THEN hash[Len(hash) - i + 1] ELSE 0

RECURSIVE SumDiff(_, _, _)
SumDiff(hash1, hash2, i) ==
    IF i = 0 THEN 0
    ELSE PopCountXor(DigitAt(hash1, i), DigitAt(hash2, i))
             + SumDiff(hash1, hash2, i - 1)

\* bin(int(hash1, 16) ^ int(hash2, 16)).count('1'); 64 when parsing raises
hamming_distance(hash1, hash2) ==
    IF IsHex(hash1) /\ IsHex(hash2)
    THEN SumDiff(hash1, hash2, Max(Len(hash1), Len(hash2)))
    ELSE HashBits

\* 1.0 - (distance / 128.0)
score_of_distance_halved(distance) ==
    fsub(Float(1), fdiv(Float(distance), Float(2 * HashBits)))

\* 1.0 - (distance / 64.0)
score_of_distance(distance) ==
    fsub(Float(1), fdiv(Float(distance), Float(HashBits)))

\* distance = self.hamming_distance(hash1, hash2); return 1.0 - ...
similarity_score(hash1, hash2) ==
    score_of_distance(hamming_distance(hash1, hash2))

\* the two methods applied to a pair of arguments that was drawn
call_hamming_distance ==
    /\ ret.op = "args"
    /\ ret' = [op |-> "hamming_distance", raised |-> "", hash1 |-> ret.hash1,
               hash2 |-> ret.hash2,
               value |-> hamming_distance(ret.hash1, ret.hash2)]
    /\ UNCHANGED <<db, committed, storage, now, callers>>

call_similarity_score ==
    /\ ret.op = "args"
    /\ ret' = [op |-> "similarity_score", raised |-> "", hash1 |-> ret.hash1,
               hash2 |-> ret.hash2,
               value |-> similarity_score(ret.hash1, ret.hash2)]
    /\ UNCHANGED <<db, committed, storage, now, callers>>

\* ------------------------------------------------ find_duplicate_groups
\* hashes: the dict as the list of its values in key order; a path is its
\* position in that list.  path_to_group: the keys of that dict.

\* each candidate is compared with the member that joined last
reference_hash_last(hashes, i, current_group) ==
    hashes[current_group[Len(current_group)]]

\* hashes[paths[i]]: each candidate is compared with the group's first path
reference_hash(hashes, i, current_group) == hashes[i]

\* for j in range(i + 1, len(paths)): ...; the pair (path_to_group,
\* current_group) when the loop ends
RECURSIVE SimilarLoop(_, _, _, _, _, _)
SimilarLoop(hashes, threshold, i, j, path_to_group, current_group) ==
    IF j > Len(hashes) THEN <<path_to_group, current_group>>
    ELSE IF j \in path_to_group
    THEN SimilarLoop(hashes, threshold, i, j + 1, path_to_group, current_group)
    ELSE IF fge(similarity_score(reference_hash(hashes, i, current_group),
                                 hashes[j]), threshold)
    THEN SimilarLoop(hashes, threshold, i, j + 1, path_to_group \cup {j},
                     Append(current_group, j))
    ELSE SimilarLoop(hashes, threshold, i, j + 1, path_to_group, current_group)

\* for i in range(len(paths)): ...; list(groups.values()) when it ends
RECURSIVE GroupLoop(_, _, _, _, _)
GroupLoop(hashes, threshold, i, path_to_group, groups) ==
    IF i > Len(hashes) THEN groups
    ELSE IF i \in path_to_group
    THEN GroupLoop(hashes, threshold, i + 1, path_to_group, groups)
    ELSE LET r == SimilarLoop(hashes, threshold, i, i + 1,
                              path_to_group \cup {i}, <<i>>)
         IN GroupLoop(hashes, threshold, i + 1, r[1],
                      IF Len(r[2]) > 1 THEN Append(groups, r[2]) ELSE groups)

find_duplicate_groups(hashes, threshold) ==
    GroupLoop(hashes, threshold, 1, {}, <<>>)

\* the method applied to arguments that were drawn
call_find_duplicate_groups ==
    /\ ret.op = "group_args"
    /\ ret' = [op |-> "find_duplicate_groups", raised |-> "",
               hashes |-> ret.hashes, threshold |-> ret.threshold,
               value |-> find_duplicate_groups(ret.hashes, ret.threshold)]
    /\ UNCHANGED <<db, committed, storage, now, callers>>

\* -------------------------------------------------- find_similar_images
\* every row is scored: no WHERE perceptual_hash IS NOT NULL, no skip of
\* empty hashes
Scored_unguarded(target_hash, threshold, region) ==
    {[id |-> r.id, region |-> r.region,
      similarity |-> similarity_score(target_hash, r.perceptual_hash)] :
        r \in {x \in screenshots :
                  /\ (region \notin {NULL, ""} => x.region = region)
                  /\ x.perceptual_hash # target_hash
                  /\ fge(similarity_score(target_hash, x.perceptual_hash),
                         threshold)
                  /\ get_by_id(x.id) # {}}}

\* SELECT ... FROM screenshots WHERE perceptual_hash IS NOT NULL
\* [AND region = ?]; the loop skips a row whose hash is empty or equal to
\* the target, scores the others and keeps those with score >= threshold
\* that get_by_id still finds
Scored(target_hash, threshold, region) ==
    {[id |-> r.id, region |-> r.region,
      similarity |-> similarity_score(target_hash, r.perceptual_hash)] :
        r \in {x \in screenshots :
                  /\ x.perceptual_hash # NoHash
                  /\ (region \notin {NULL, ""} => x.region = region)
                  /\ x.perceptual_hash # target_hash
                  /\ fge(similarity_score(target_hash, x.perceptual_hash),
                         threshold)
                  /\ get_by_id(x.id) # {}}}

\* the results are left in the order of the SELECT
SortBySimilarity_skipped(rows) == FetchAll(rows)

\* results.sort(key=similarity, reverse=True): every order of the rows with
\* non-increasing similarity (the SELECT has no ORDER BY)
SortBySimilarity(rows) ==
    {o \in FetchAll(rows) :
        \A i, j \in DOMAIN o : i < j => fge(o[i].similarity, o[j].similarity)}

\* results[:limit] for limit >= 0
Take(o, limit) == SubSeq(o, 1, Min(limit, Len(o)))

\* the lists find_similar_images may return once it has the target hash
SimilarImages(target_hash, threshold, limit, region) ==
    {Take(o, limit) : o \in SortBySimilarity(Scored(target_hash, threshold, region))}

\* image: content of the file at image_path (NULL: no image_path given)
\* image_hash: the image_hash argument (NoHash: not given)
find_similar_images(image, image_hash, threshold, limit, region) ==
    LET target_hash == IF image # NULL THEN compute_hash(image) ELSE image_hash IN
    /\ UNCHANGED <<db, committed, storage, now, callers>>
    /\ IF (image = NULL /\ image_hash = NoHash) \/ target_hash = NoHash
       THEN ret' = [op |-> "find_similar_images", raised |-> "ValueError",
                    target |-> target_hash, threshold |-> threshold,
                    limit |-> limit, region |-> region, value |-> <<>>]
       ELSE \E res \in SimilarImages(target_hash, threshold, limit, region) :
                ret' = [op |-> "find_similar_images", raised |-> "",
                        target |-> target_hash, threshold |-> threshold,
                        limit |-> limit, region |-> region, value |-> res]

\* ------------------------------------------------------ combined_search
\* self.search(query=text_query, limit=1000, region=region): the lists it
\* may return
TextResults(text_query, region) ==
    {LimitOffset(o, CandidateLimit, 0) :
        o \in OrderByRank(SearchRows(text_query, NoDate, NoDate, region))}

\* the weights used as they are, without dividing by their sum
normalized_weight_unscaled(weight, text_weight, image_weight) == weight

\* total_weight = text_weight + image_weight;
\* weight / total_weight if total_weight > 0 else 0.0
normalized_weight(weight, text_weight, image_weight) ==
    LET total_weight == fadd(text_weight, image_weight) IN
    IF fpos(total_weight) THEN fdiv(weight, total_weight) ELSE FZero

RECURSIVE MaxRank(_, _)
MaxRank(text_results, i) ==
    IF i = 0 THEN text_results[1].rank
    ELSE LET m == MaxRank(text_results, i - 1) IN
         IF text_results[i].rank > m THEN text_results[i].rank ELSE m

\* max([r.get('rank', 0) for r in text_results], default=1)
max_bm25(text_results) ==
    IF text_results = <<>> THEN 1 ELSE MaxRank(text_results, Len(text_results))

\* rank / max_bm25 if max_bm25 > 0 else 0
normalized_score(rank, max_rank) ==
    IF max_rank > 0 THEN fdiv(Float(rank), Float(max_rank)) ELSE FZero

\* combined_results after the loop over text_results: one entry per result
TextEntries(text_results, w_text) ==
    [i \in DOMAIN text_results |->
        LET score == normalized_score(text_results[i].rank,
                                      max_bm25(text_results)) IN
        [id |-> text_results[i].id, rank |-> text_results[i].rank,
         text_score |-> score, image_score |-> FZero,
         combined_score |-> fmul(score, w_text)]]

\* the entry of text_results[i] after the loop over image_results
Updated(entry, image_results, w_image) ==
    IF \E j \in DOMAIN image_results : image_results[j].id = entry.id
    THEN LET r == image_results[CHOOSE j \in DOMAIN image_results :
                                    image_results[j].id = entry.id] IN
         [entry EXCEPT
             !.image_score = r.similarity,
             !.combined_score = fadd(entry.combined_score,
                                     fmul(r.similarity, w_image))]
    ELSE entry

\* combined_results.values(): the text results in their order, then the
\* image results that were not text results in theirs
Fused(text_results, image_results, w_text, w_image) ==
    LET text_entries == TextEntries(text_results, w_text)
        text_ids == {text_results[i].id : i \in DOMAIN text_results}
        new_image == SelectSeq(image_results, LAMBDA r : r.id \notin text_ids)
    IN [i \in DOMAIN text_entries |->
           Updated(text_entries[i], image_results, w_image)]
       \o [i \in DOMAIN new_image |->
              [id |-> new_image[i].id, text_score |-> FZero,
               image_score |-> new_image[i].similarity,
               combined_score |-> fmul(new_image[i].similarity, w_image)]]

\* the filtered list is returned in dictionary order, without sorting
SortByCombinedScore_skipped(results) == results

\* position of entry x in seq
IndexOf(seq, x) == CHOOSE i \in DOMAIN seq : seq[i] = x

\* results.sort(key=combined_score, reverse=True): the sort is stable
SortByCombinedScore(results) ==
    CHOOSE o \in FetchAll(Range(results)) :
        \A i, j \in DOMAIN o : i < j =>
            /\ fge(o[i].combined_score, o[j].combined_score)
            /\ fge(o[j].combined_score, o[i].combined_score) =>
                   IndexOf(results, o[i]) < IndexOf(results, o[j])

\* filter by threshold, sort, results[:limit]
Ranked(fused, threshold, limit) ==
    Take(SortByCombinedScore(
             SelectSeq(fused, LAMBDA r : fge(r.combined_score, threshold))),
         limit)

\* the weights after "Adjust weights for single-modality searches"
AdjustedText(text_query, image, text_weight) ==
    IF text_query = NULL THEN FZero
    ELSE IF image = NULL THEN Float(1) ELSE Float(text_weight)

AdjustedImage(text_query, image, image_weight) ==
    IF text_query = NULL THEN Float(1)
    ELSE IF image = NULL THEN FZero ELSE Float(image_weight)

\* the lists find_similar_images(image_hash=target_hash, threshold=0.1,
\* limit=1000, region=region) may return; none without a target hash
ImageResults(image, w_image, region) ==
    IF image # NULL /\ fpos(w_image) /\ compute_hash(image) # NoHash
    THEN SimilarImages(compute_hash(image), Literal(1, 10), CandidateLimit,
                       region)
    ELSE {<<>>}

\* only the presence of a modality is validated, not its weight
InvalidQuery_weights_unchecked(text_query, image, text_weight, image_weight) ==
    text_query = NULL /\ image = NULL

\* "Validate inputs", "Validate weights based on search modalities": one of
\* the three raise ValueError statements is reached
InvalidQuery(text_query, image, text_weight, image_weight) ==
    \/ text_query = NULL /\ image = NULL
    \/ text_query # NULL /\ text_weight <= 0
    \/ image # NULL /\ image_weight <= 0

\* the lists a call that passes validation may return in the current state
CombinedResults(text_query, image, text_weight, image_weight, threshold, limit, region) ==
    LET tw == AdjustedText(text_query, image, text_weight)
        iw == AdjustedImage(text_query, image, image_weight)
        w_text == normalized_weight(tw, tw, iw)
        w_image == normalized_weight(iw, tw, iw)
    IN {Ranked(Fused(t, im, w_text, w_image), threshold, limit) :
           t \in (IF text_query # NULL /\ fpos(w_text)
                  THEN TextResults(text_query, region) ELSE {<<>>}),
           im \in ImageResults(image, w_image, region)}

\* image: content of the file at image_path (NULL: no image_path given)
\* text_weight, image_weight: integer-valued weights
combined_search(text_query, image, text_weight, image_weight, threshold, limit, region) ==
    LET tw == AdjustedText(text_query, image, text_weight)
        iw == AdjustedImage(text_query, image, image_weight)
        w_text == normalized_weight(tw, tw, iw)
        w_image == normalized_weight(iw, tw, iw)
        call == [op |-> "combined_search", text_query |-> text_query,
                 image |-> image, text_weight |-> text_weight,
                 image_weight |-> image_weight, threshold |-> threshold,
                 limit |-> limit, region |-> region]
    IN
    /\ UNCHANGED <<screenshots, screenshots_fts, sqlite_sequence, storage, now,
                   callers>>
    /\ IF InvalidQuery(text_query, image, text_weight, image_weight)
       THEN \* raise ValueError
            /\ UNCHANGED <<search_history, committed>>
            /\ ret' = call @@ [raised |-> "ValueError", value |-> <<>>]
       ELSE IF text_query # NULL /\ fpos(w_text)
       THEN /\ Len(search_history) < MaxHistory
            /\ IF text_query = BadQuery
               THEN \* self.search raises; its row stays in the transaction
                    /\ search_history' =
                           Append(search_history,
                                  [query |-> text_query, results_count |-> 0])
                    /\ UNCHANGED committed
                    /\ ret' = call @@ [raised |-> "OperationalError",
                                       value |-> <<>>]
               ELSE \E text_results \in TextResults(text_query, region),
                       image_results \in ImageResults(image, w_image, region) :
                    /\ search_history' =
                           update_results_count(
                               Append(search_history,
                                      [query |-> text_query,
                                       results_count |-> 0]),
                               Len(text_results))
                    /\ committed' = Commit(screenshots, screenshots_fts,
                                           search_history', sqlite_sequence)
                    /\ ret' = call @@
                           [raised |-> "",
                            value |-> Ranked(Fused(text_results, image_results,
                                                   w_text, w_image),
                                             threshold, limit)]
       ELSE \E image_results \in ImageResults(image, w_image, region) :
            /\ UNCHANGED <<search_history, committed>>
            /\ ret' = call @@
                   [raised |-> "",
                    value |-> Ranked(Fused(<<>>, image_results, w_text, w_image),
                                     threshold, limit)]

\* ------------------------------------------------------------- the clock
\* the clock advances within the current second
TickFraction ==
    /\ now % TicksPerDay < MaxTicks
    /\ now' = now + 1
    /\ ret' = [op |-> "tick", raised |-> ""]
    /\ UNCHANGED <<db, committed, storage, callers>>

\* a day passes
TickDay ==
    /\ now \div TicksPerDay < MaxDays
    /\ now' = now + TicksPerDay
    /\ ret' = [op |-> "tick", raised |-> ""]
    /\ UNCHANGED <<db, committed, storage, callers>>

\* (date_from, date_to) arguments of search
DateRanges == {<<NoDate, NoDate>>, <<1, NoDate>>, <<NoDate, 0>>}

\* ------------------------------------------------------- specifications
\* Spec: the store's life cycle.  Every operation is called; ingestion,
\* deletion and the retention sweep with every modelled input and fault,
\* search with the queries that leave something behind for them (a
\* malformed query leaves its transaction open).
Next ==
    \/ \E p \in Paths, c \in Contents, d \in Descriptions, r \in Regions,
          f \in BOOLEAN : add_screenshot(p, c, d, r, TRUE, f)
    \/ \E q \in {BadQuery, "red"} : search(q, 1, 0, NoDate, NoDate, NULL)
    \/ \E id \in 1..(MaxSeq + 1), f \in BOOLEAN : delete_screenshot(id, f)
    \/ \E d \in Days :
          \E o \in FetchAll(expired(d)) :
              \E k \in 0..Len(o) : cleanup_old_screenshots(d, o, k)
    \/ TickFraction
    \/ TickDay

Spec == Init /\ [][Next]_vars

\* SearchSpec: text search over a changing store.  Every operation is
\* called; search with every modelled argument, the store operations with
\* image files only and without file-removal faults.
NextSearch ==
    \/ \E p \in Paths, c \in {"imgA", "imgB"}, d \in Descriptions,
          r \in Regions, f \in BOOLEAN : add_screenshot(p, c, d, r, TRUE, f)
    \/ \E q \in Queries, l \in Limits, o \in Offsets, dr \in DateRanges,
          r \in RegionFilters : search(q, l, o, dr[1], dr[2], r)
    \/ \E id \in 1..MaxSeq : delete_screenshot(id, FALSE)
    \/ \E o \in FetchAll(expired(0)) :
          cleanup_old_screenshots(0, o, 0)
    \/ TickDay

SearchSpec == Init /\ [][NextSearch]_vars

\* SimilaritySpec: ingestion with and without fingerprints, and similarity
\* search over the stored fingerprints.
SimilarityThresholds == {Literal(99, 100), Literal(1, 10)}
Captions == {<<"red">>, NoDescription}

NextSimilarity ==
    \/ \E p \in Paths, c \in Images, d \in Captions, h \in BOOLEAN :
          add_screenshot(p, c, d, NULL, h, FALSE)
    \/ \E i \in {NULL, "imgA", "imgT"}, h \in {NoHash, hashC},
          th \in SimilarityThresholds, l \in Limits :
          find_similar_images(i, h, th, l, NULL)
    \/ TickDay

SimilaritySpec == Init /\ [][NextSimilarity]_vars

\* arguments of combined_search
WideWeight == 2^(MantissaBits - 1)
Weights == {<<2, 2>>, <<5, 5>>, <<7, 3>>, <<1, WideWeight>>,
            <<3, 3 * WideWeight>>, <<0, 1>>, <<1, 0>>}
Thresholds == {Literal(1, 2), FZero}
TextQueries == {NULL, "left"}
QueryImages == {NULL, "imgA", "imgT"}

\* FusionSpec: combined search over a growing store of fingerprinted
\* records, with every modelled query, query image, threshold and limit.
NextFusion ==
    \/ \E p \in Paths, c \in {"imgB", "imgC"}, d \in Descriptions,
          r \in Regions : add_screenshot(p, c, d, r, TRUE, FALSE)
    \/ \E q \in TextQueries, i \in QueryImages, w \in {<<7, 3>>, <<1, 1>>},
          th \in Thresholds, l \in Limits :
          combined_search(q, i, w[1], w[2], th, l, NULL)
    \/ TickDay

FusionSpec == Init /\ [][NextFusion]_vars

\* WeightSpec: combined search over the same store with every modelled
\* pair of weights.
NextWeight ==
    \/ \E p \in Paths, c \in {"imgB", "imgC"}, d \in Descriptions,
          r \in Regions : add_screenshot(p, c, d, r, TRUE, FALSE)
    \/ \E q \in TextQueries, i \in {NULL, "imgA"}, w \in Weights :
          combined_search(q, i, w[1], w[2], FZero, 2, NULL)
    \/ TickDay

WeightSpec == Init /\ [][NextWeight]_vars

\* DistanceSpec: the two fingerprint comparisons applied to every pair of
\* the modelled fingerprints and unparsable strings.
InitDistance ==
    /\ screenshots = {}
    /\ screenshots_fts = {}
    /\ search_history = <<>>
    /\ sqlite_sequence = 0
    /\ committed = Commit({}, {}, <<>>, 0)
    /\ storage = <<>>
    /\ now = 0
    /\ callers = [c \in Callers |-> Idle]
    /\ ret \in {[op |-> "args", raised |-> "", hash1 |-> a, hash2 |-> b] :
                   a, b \in Fingerprints \cup Unparsable}

NextDistance ==
    \/ call_hamming_distance
    \/ call_similarity_score

DistanceSpec == InitDistance /\ [][NextDistance]_vars

\* GroupSpec: duplicate grouping of every list of up to MaxImages of the
\* fingerprints hashA, hashC (8 bits from hashA), hashD (8 bits from hashC,
\* 16 from hashA) and hashB, at three thresholds.
hashD == Fingerprint(12, 0)
GroupHashes == {hashA, hashC, hashD, hashB}
GroupThresholds == {Literal(7, 8), Literal(9, 10), FZero}
HashLists == UNION {[1..n -> GroupHashes] : n \in 0..MaxImages}

InitGroup ==
    /\ screenshots = {}
    /\ screenshots_fts = {}
    /\ search_history = <<>>
    /\ sqlite_sequence = 0
    /\ committed = Commit({}, {}, <<>>, 0)
    /\ storage = <<>>
    /\ now = 0
    /\ callers = [c \in Callers |-> Idle]
    /\ ret \in {[op |-> "group_args", raised |-> "", hashes |-> h,
                 threshold |-> t] : h \in HashLists, t \in GroupThresholds}

NextGroup == call_find_duplicate_groups

GroupSpec == InitGroup /\ [][NextGroup]_vars

\* RaceSpec: two callers ingest image files through connections of their
\* own, their calls interleaved in every way.
NextRace ==
    \/ \E c \in Callers, p \in Paths, i \in {"imgA", "imgB"} :
          add_lookup(c, p, i, NoDescription, NULL)
    \/ \E c \in Callers : add_copy(c)
    \/ \E c \in Callers : add_insert(c)
    \/ \E c \in Callers : add_return(c)
    \/ TickDay

RaceSpec == Init /\ [][NextRace]_vars

\* ReadSpec: every read operation over a store whose records come and go.
\* The query fingerprint hashD is 8 bits from hashC and 16 from hashA.
ReadThresholds == {Literal(4, 5), Literal(1, 10)}

NextRead ==
    \/ \E p \in Paths, c \in {"imgA", "imgC"}, d \in Descriptions,
          r \in Regions : add_screenshot(p, c, d, r, TRUE, FALSE)
    \/ \E id \in 1..MaxSeq : delete_screenshot(id, FALSE)
    \/ \E o \in FetchAll(expired(0)) : cleanup_old_screenshots(0, o, 0)
    \/ search("red", 2, 0, NoDate, NoDate, NULL)
    \/ call_get_recent(2, NULL)
    \/ \E id \in 1..MaxSeq : call_get_by_id(id)
    \/ \E th \in ReadThresholds, l \in Limits, r \in RegionFilters :
          find_similar_images(NULL, hashD, th, l, r)
    \/ combined_search("red", "imgA", 1, 1, FZero, 2, NULL)
    \/ TickDay

ReadSpec == Init /\ [][NextRead]_vars

\* ================================================================ claims
HasHash(rows, c) == {x \in rows : x.file_hash = <<"sha256", c>>}

\* C1: ingesting content that already has a record succeeds, returns that
\* record's id and adds no record; ingesting new content, when it succeeds,
\* adds exactly one record, whose id it returns.  Two calls with the same
\* content therefore return the same id and add one record in total.
C1_Post(c) ==
    /\ HasHash(screenshots, c) # {} =>
          /\ ret'.raised = ""
          /\ ret'.value \in Ids(HasHash(screenshots, c))
          /\ screenshots' = screenshots
    /\ (HasHash(screenshots, c) = {} /\ ret'.raised = "") =>
          /\ Cardinality(screenshots') = Cardinality(screenshots) + 1
          /\ Ids(HasHash(screenshots', c)) = {ret'.value}
    /\ Cardinality(HasHash(screenshots', c)) <= 1

IdempotentIngestion ==
    [][ret'.op = "add_screenshot" => C1_Post(ret'.content)]_vars

\* a call returned the id of a record that was ingested at an earlier time
IdempotentIngestionWitness ==
    /\ ret.op = "add_screenshot"
    /\ ret.raised = ""
    /\ ret.existing
    /\ \E x \in screenshots : x.id = ret.value /\ x.timestamp < now

\* C2: the ids in the search index are the ids in the record table.
IndexMatchesRecords == RowIds(screenshots_fts) = Ids(screenshots)

\* C3: add_screenshot commits a record row and its index entry together or
\* not at all: a failed call leaves tables and database file without a row
\* or index entry of that file, a successful one leaves one of each under
\* the same id, nothing stays behind in an open transaction, and every
\* committed record has its index entry.
C3_Post(c) ==
    /\ screenshots' = committed'.screenshots
    /\ screenshots_fts' = committed'.screenshots_fts
    /\ Ids(screenshots') \ Ids(screenshots)
          = RowIds(screenshots_fts') \ RowIds(screenshots_fts)
    /\ ret'.raised # "" =>
          /\ HasHash(screenshots', c) = {}
          /\ screenshots' = screenshots
          /\ screenshots_fts' = screenshots_fts
          /\ committed'.screenshots = committed.screenshots
          /\ committed'.screenshots_fts = committed.screenshots_fts
    /\ ret'.raised = "" =>
          /\ Ids(HasHash(screenshots', c)) = {ret'.value}
          /\ Cardinality({x \in screenshots_fts' : x.rowid = ret'.value}) = 1

StoredCopyUntouched ==
    [][ret'.op = "add_screenshot" =>
          \A x \in screenshots :
              x.storage_path \in DOMAIN storage =>
                  /\ x.storage_path \in DOMAIN storage'
                  /\ storage'[x.storage_path] = storage[x.storage_path]
      ]_vars

\* C5: after a retention sweep that failed, no record is left whose stored
\* file the sweep removed.
SweepAllOrNothing ==
    [][(ret'.op = "cleanup_old_screenshots" /\ ret'.raised # "") =>
          \A x \in screenshots' :
              x.storage_path \in DOMAIN storage =>
                  x.storage_path \in DOMAIN storage'
      ]_vars

\* C6: delete_screenshot of an unknown id returns false and changes no
\* record, index entry or stored file; of a known id it returns true unless
\* removing the file fails, and then the record is absent and its file is
\* gone; a stored file that is already missing does not make it raise.
C6_Post(id) ==
    LET known == {x \in screenshots : x.id = id} IN
    /\ known = {} =>
          /\ ret'.raised = "" /\ ret'.value = FALSE
          /\ UNCHANGED <<screenshots, screenshots_fts, storage, committed>>
    /\ (known # {} /\ ret'.raised = "") =>
          /\ ret'.value = TRUE
          /\ {x \in screenshots' : x.id = id} = {}
          /\ \A x \in known : x.storage_path \notin DOMAIN storage'
    /\ (known # {} /\ \A x \in known : x.storage_path \notin DOMAIN storage) =>
          ret'.raised = "" /\ ret'.value = TRUE
    /\ ret'.raised # "" =>
          known # {} /\ \A x \in known : x.storage_path \in DOMAIN storage

DeleteContract ==
    [][ret'.op = "delete_screenshot" => C6_Post(ret'.screenshot_id)]_vars

\* a record whose stored file was already missing was deleted
DeleteContractWitness ==
    /\ ret.op = "delete_screenshot"
    /\ ret.raised = ""
    /\ ret.value = TRUE
    /\ ~ret.existed

\* C7 as stated: after a completed sweep with days = 0 no record with a
\* timestamp up to and including now is left.
SweepRemovesUpToNow ==
    (ret.op = "cleanup_old_screenshots" /\ ret.raised = "" /\ ret.days = 0) =>
        \A x \in screenshots : x.timestamp > now

\* C7 as amended: after a completed sweep with days = 0 no record with a
\* timestamp before now is left, a record stamped at the cutoff instant is
\* kept, and the stored file of every record the sweep deleted is gone.
SweepRemovesBeforeNow ==
    [][(ret'.op = "cleanup_old_screenshots" /\ ret'.raised = ""
            /\ ret'.days = 0) =>
          /\ \A x \in screenshots' : x.timestamp >= now
          /\ \A x \in screenshots : x.timestamp = now => x \in screenshots'
          /\ \A x \in screenshots \ screenshots' :
                 x.storage_path \notin DOMAIN storage'
      ]_vars

\* a sweep with days = 0 deleted a record and kept one stamped at the cutoff
SweepRemovesBeforeNowWitness ==
    /\ ret.op = "cleanup_old_screenshots"
    /\ ret.raised = ""
    /\ ret.days = 0
    /\ ret.value >= 1
    /\ \E x \in screenshots : x.timestamp = now

\* C8: a completed sweep deletes exactly the records stamped before
\* now - days * 86400, returns how many it deleted, leaves every other
\* record, its index entry and its stored file as they were, and with
\* nothing to delete returns 0 and changes nothing.
C8_Post(days) ==
    LET old == {x \in screenshots :
                   x.timestamp < now - days * 86400 * TicksPerSecond}
        kept == screenshots \ old
    IN
    /\ screenshots' = kept
    /\ ret'.value = Cardinality(old)
    /\ ret'.value = Cardinality(screenshots) - Cardinality(screenshots')
    /\ {x \in screenshots_fts' : x.rowid \in Ids(kept)}
          = {x \in screenshots_fts : x.rowid \in Ids(kept)}
    /\ \A x \in kept :
          /\ x.storage_path \in DOMAIN storage'
                <=> x.storage_path \in DOMAIN storage
          /\ x.storage_path \in DOMAIN storage =>
                storage'[x.storage_path] = storage[x.storage_path]
    /\ old = {} =>
          /\ ret'.value = 0
          /\ UNCHANGED <<screenshots, screenshots_fts, storage>>

SweepFrame ==
    [][\A days \in Days :
          (ret'.op = "cleanup_old_screenshots" /\ ret'.raised = ""
              /\ ret'.days = days) => C8_Post(days)]_vars

\* a sweep with days = 1 deleted one record and kept another
SweepFrameWitness ==
    /\ ret.op = "cleanup_old_screenshots"
    /\ ret.raised = ""
    /\ ret.days = 1
    /\ ret.value = 1
    /\ screenshots # {}

IsPrefix(a, b) == Len(a) <= Len(b) /\ SubSeq(b, 1, Len(a)) = a

\* C9: a completed search appends one row to the audit log, holding the
\* query and the number of results returned (zero included), and that row
\* is committed; rows of the committed audit log are never changed or
\* removed.
C9_Post(q) ==
    /\ search_history' =
          Append(search_history,
                 [query |-> q, results_count |-> Len(ret'.value)])
    /\ committed'.search_history = search_history'

AuditLogAppendOnly ==
    [][/\ (ret'.op = "search" /\ ret'.raised = "") => C9_Post(ret'.query)
       /\ IsPrefix(committed.search_history, committed'.search_history)
      ]_vars

\* a search without results was logged after an earlier one with results
AuditLogAppendOnlyWitness ==
    /\ ret.op = "search"
    /\ ret.raised = ""
    /\ ret.value = <<>>
    /\ Len(search_history) = 2
    /\ search_history[1].results_count >= 1
    /\ search_history[2].results_count = 0
    /\ committed.search_history = search_history

\* C10 as stated: whatever string is passed as the region filter, the empty
\* string included, every result has that region.
EveryRegionValueFilters ==
    (ret.op = "search" /\ ret.raised = "" /\ ret.region # NULL) =>
        \A i \in DOMAIN ret.value : ret.value[i].region = ret.region

\* C10 as amended: for every non-empty region filter every result has that
\* region (an empty string is no filter, like an absent one); the results
\* are records that match the query, the date bounds and the filter, in
\* rank order, and as many of them as limit and offset allow - the filters
\* are applied before limit and offset.
C10_Post(q, l, o, df, dt, r) ==
    LET matching ==
            {x \in screenshots :
                /\ \E e \in screenshots_fts : e.rowid = x.id /\ q \in Tokens(e)
                /\ df # NoDate => x.timestamp >= df
                /\ dt # NoDate => x.timestamp <= dt
                /\ r \notin {NULL, ""} => x.region = r}
        n == Cardinality(matching)
        res == ret'.value
    IN
    /\ r \notin {NULL, ""} => \A i \in DOMAIN res : res[i].region = r
    /\ \A i \in DOMAIN res : res[i].id \in Ids(matching)
    /\ \A i, j \in DOMAIN res : i < j =>
          res[i].id # res[j].id /\ res[i].rank <= res[j].rank
    /\ Len(res) = (IF n - o <= 0 THEN 0 ELSE IF n - o < l THEN n - o ELSE l)

RegionFilterBeforeLimit ==
    [][(ret'.op = "search" /\ ret'.raised = "") =>
          \A l \in Limits, o \in Offsets, dr \in DateRanges :
              search(ret'.query, l, o, dr[1], dr[2], ret'.region) =>
                  C10_Post(ret'.query, l, o, dr[1], dr[2], ret'.region)]_vars

\* a search for "red" limited to one result and filtered by region "left"
\* returned a record while a better ranked record of another region exists
RegionFilterBeforeLimitWitness ==
    /\ ret.op = "search"
    /\ ret.raised = ""
    /\ ret.region = "left"
    /\ Len(ret.value) = 1
    /\ search_history[Len(search_history)].query = "red"
    /\ \E x \in screenshots :
          x.region # "left" /\ x.description = <<"red">>
              /\ \E e \in screenshots_fts :
                    e.rowid = x.id /\ bm25(e) < ret.value[1].rank

\* C11 as stated: store similarity search returns every record whose
\* stored fingerprint scores >= threshold against the query fingerprint, a
\* record whose fingerprint equals the query fingerprint (similarity 1.0)
\* included, as far as the limit allows.
SimilarIncludesEqualFingerprint ==
    (ret.op = "find_similar_images" /\ ret.raised = "") =>
        LET above == {x \in screenshots :
                         /\ x.perceptual_hash # NoHash
                         /\ fge(similarity_score(ret.target, x.perceptual_hash),
                                ret.threshold)}
        IN /\ \A i \in DOMAIN ret.value : ret.value[i].id \in Ids(above)
           /\ Len(ret.value) = Min(ret.limit, Cardinality(above))

\* C12 as stated: in the result of a combined search the text candidate
\* with the best (lowest) raw rank has text_score 1.0, and a text candidate
\* with a better rank never has a lower text_score than one with a worse
\* rank.  Checked where every candidate is returned (threshold 0, list
\* shorter than limit).
IsTextCandidate(x) == "rank" \in DOMAIN x

BestTextMatchScoresOne ==
    (/\ ret.op = "combined_search" /\ ret.raised = ""
     /\ ret.threshold = FZero /\ Len(ret.value) < ret.limit) =>
        LET text == {x \in Range(ret.value) : IsTextCandidate(x)} IN
        /\ \A x \in text :
              (\A y \in text : x.rank <= y.rank) => x.text_score = Float(1)
        /\ \A x, y \in text :
              x.rank < y.rank => fge(x.text_score, y.text_score)

\* the ids search(text_query) and the image branch deliver to the fusion
TextCandidateIds(text_query, region) ==
    IF text_query = NULL THEN {}
    ELSE Ids(SearchRows(text_query, NoDate, NoDate, region))

ImageCandidateIds(image, region) ==
    IF image = NULL \/ compute_hash(image) = NoHash THEN {}
    ELSE Ids(Scored(compute_hash(image), Literal(1, 10), region))

\* C13 as stated: in the result of a combined search with both modalities
\* no record id occurs twice; a record that is a text result and an image
\* candidate has text_score > 0, image_score > 0 and combined_score equal to
\* the sum of the two weighted contributions; a candidate of one modality
\* only has the other modality's score exactly 0.
FusionCompleteness ==
    (/\ ret.op = "combined_search" /\ ret.raised = ""
     /\ ret.text_query # NULL /\ ret.image # NULL) =>
        LET tw == Float(ret.text_weight)
            iw == Float(ret.image_weight)
            w_text == fdiv(tw, fadd(tw, iw))
            w_image == fdiv(iw, fadd(tw, iw))
            text_ids == TextCandidateIds(ret.text_query, ret.region)
            image_ids == ImageCandidateIds(ret.image, ret.region)
            res == ret.value
        IN \A i \in DOMAIN res :
              /\ \A j \in DOMAIN res : j # i => res[j].id # res[i].id
              /\ res[i].id \in text_ids \cup image_ids
              /\ res[i].id \in text_ids \cap image_ids =>
                    /\ fpos(res[i].text_score)
                    /\ fpos(res[i].image_score)
                    /\ res[i].combined_score =
                          fadd(fmul(res[i].text_score, w_text),
                               fmul(res[i].image_score, w_image))
              /\ res[i].id \in text_ids \ image_ids =>
                    res[i].image_score = FZero
              /\ res[i].id \in image_ids \ text_ids =>
                    res[i].text_score = FZero

\* C14 as stated: a combined search with text_weight 7, image_weight 3 and
\* the default threshold 0.5 returns every record that is a candidate of
\* one modality only (as far as the limit allows), in non-increasing order
\* of combined_score.
OneModalityStillAppears ==
    (/\ ret.op = "combined_search" /\ ret.raised = ""
     /\ ret.text_query # NULL /\ ret.image # NULL
     /\ ret.text_weight = 7 /\ ret.image_weight = 3
     /\ ret.threshold = Literal(1, 2)) =>
        LET text_ids == TextCandidateIds(ret.text_query, ret.region)
            image_ids == ImageCandidateIds(ret.image, ret.region)
            res == ret.value
        IN /\ Cardinality(text_ids \cup image_ids) <= ret.limit =>
                 \A id \in (text_ids \ image_ids) \cup (image_ids \ text_ids) :
                     \E i \in DOMAIN res : res[i].id = id
           /\ \A i, j \in DOMAIN res :
                 i < j => fge(res[i].combined_score, res[j].combined_score)

\* the integer n is a float: Float(n) does not round
IsExact(n) ==
    LET f == Float(n) IN
    IF f.e >= 0 THEN f.m * 2^f.e = n
    ELSE f.m % 2^(0 - f.e) = 0 /\ f.m \div 2^(0 - f.e) = n

\* (a, b) and (c, d) are positive and c = k*a, d = k*b for some k > 0
Proportional(a, b, c, d) ==
    a > 0 /\ b > 0 /\ c > 0 /\ d > 0 /\ a * d = b * c

\* C15 as stated: what a combined search returned with weights (a, b) is
\* what it returns in the same state, with the same other arguments, for
\* every pair of weights (k*a, k*b): same records, same order, identical
\* scores.
WeightScaleInvariance ==
    (ret.op = "combined_search" /\ ret.raised = "") =>
        \A w \in Weights :
            Proportional(ret.text_weight, ret.image_weight, w[1], w[2]) =>
                ret.value \in CombinedResults(ret.text_query, ret.image,
                                   w[1], w[2], ret.threshold, ret.limit,
                                   ret.region)

\* C15 as amended: the same, for weights whose sums a + b and k*a + k*b are
\* computed without rounding.
WeightScaleInvarianceExact ==
    (ret.op = "combined_search" /\ ret.raised = "") =>
        \A w \in Weights :
            (/\ Proportional(ret.text_weight, ret.image_weight, w[1], w[2])
             /\ IsExact(ret.text_weight + ret.image_weight)
             /\ IsExact(w[1] + w[2])) =>
                ret.value \in CombinedResults(ret.text_query, ret.image,
                                   w[1], w[2], ret.threshold, ret.limit,
                                   ret.region)

\* a combined search with both modalities and weights (2, 2) returned a
\* record found by text and image with a positive score
WeightScaleInvarianceExactWitness ==
    /\ ret.op = "combined_search"
    /\ ret.raised = ""
    /\ ret.text_query # NULL /\ ret.image # NULL
    /\ ret.text_weight = 2 /\ ret.image_weight = 2
    /\ \E i \in DOMAIN ret.value :
          /\ IsTextCandidate(ret.value[i])
          /\ fpos(ret.value[i].combined_score)

\* C16: a combined search with neither a text query nor an image, or with
\* a text query and text_weight <= 0, or with an image and image_weight <= 0
\* raises ValueError and leaves records, index, audit log, database file and
\* stored files as they were; no other call raises ValueError.
C16_Invalid(call) ==
    \/ call.text_query = NULL /\ call.image = NULL
    \/ call.text_query # NULL /\ call.text_weight <= 0
    \/ call.image # NULL /\ call.image_weight <= 0

InvalidQueryRejected ==
    [][ret'.op = "combined_search" =>
          /\ C16_Invalid(ret') =>
                /\ ret'.raised = "ValueError"
                /\ UNCHANGED <<screenshots, screenshots_fts, search_history,
                               sqlite_sequence, committed, storage>>
          /\ ret'.raised = "ValueError" => C16_Invalid(ret')
      ]_vars

\* a text query with text_weight 0 was rejected on a store that holds a
\* record matching it
InvalidQueryRejectedWitness ==
    /\ ret.op = "combined_search"
    /\ ret.raised = "ValueError"
    /\ ret.text_query # NULL
    /\ ret.text_weight = 0
    /\ TextCandidateIds(ret.text_query, NULL) # {}

\* the fused candidates of the call recorded in ret: the entries of
\* combined_results, whatever the order the two branches delivered them in
C17_Fused ==
    LET tw == AdjustedText(ret.text_query, ret.image, ret.text_weight)
        iw == AdjustedImage(ret.text_query, ret.image, ret.image_weight)
        w_text == normalized_weight(tw, tw, iw)
        w_image == normalized_weight(iw, tw, iw)
        t == CHOOSE x \in (IF ret.text_query # NULL
                           THEN TextResults(ret.text_query, ret.region)
                           ELSE {<<>>}) : TRUE
        im == CHOOSE x \in ImageResults(ret.image, w_image, ret.region) : TRUE
    IN Range(Fused(t, im, w_text, w_image))

\* C17: the list a combined search returns holds no record id twice, holds
\* only fused candidates with combined_score >= threshold, is in
\* non-increasing order of combined_score, has min(limit, number of such
\* candidates) entries, and a candidate left out by the limit scores no
\* higher than any entry.
ResultListWellFormed ==
    (ret.op = "combined_search" /\ ret.raised = "") =>
        LET res == ret.value
            passing == {x \in C17_Fused :
                           fge(x.combined_score, ret.threshold)}
        IN /\ \A i, j \in DOMAIN res : i # j => res[i].id # res[j].id
           /\ Range(res) \subseteq passing
           /\ \A i, j \in DOMAIN res :
                 i < j => fge(res[i].combined_score, res[j].combined_score)
           /\ Len(res) = Min(ret.limit, Cardinality(passing))
           /\ \A x \in passing \ Range(res) :
                 \A i \in DOMAIN res :
                     fge(res[i].combined_score, x.combined_score)

\* a combined search with limit 1 returned the higher scoring of two
\* candidates, the lower scoring one being a text result
ResultListWellFormedWitness ==
    /\ ret.op = "combined_search"
    /\ ret.raised = ""
    /\ ret.limit = 1
    /\ Len(ret.value) = 1
    /\ fpos(ret.value[1].combined_score)
    /\ \E x \in C17_Fused :
          /\ x.id # ret.value[1].id
          /\ IsTextCandidate(x)
          /\ fge(x.combined_score, ret.threshold)

\* C18: a combined search given an image that cannot be fingerprinted does
\* not fail; every entry of its result is a text result with image_score 0,
\* and with threshold 0 the result holds min(limit, number of text results)
\* entries.
UnhashableImageDegrades ==
    (/\ ret.op = "combined_search"
     /\ ret.image = "imgT"
     /\ ret.image_weight > 0
     /\ ret.text_query # NULL => ret.text_weight > 0) =>
        /\ ret.raised = ""
        /\ \A i \in DOMAIN ret.value :
              /\ ret.value[i].image_score = FZero
              /\ IsTextCandidate(ret.value[i])
              /\ ret.value[i].id \in TextCandidateIds(ret.text_query, ret.region)
        /\ ret.threshold = FZero =>
              Len(ret.value) =
                  Min(ret.limit,
                      Cardinality(TextCandidateIds(ret.text_query, ret.region)))

\* such a search returned a text result whose fingerprint is close to the
\* fingerprint of another record
UnhashableImageDegradesWitness ==
    /\ ret.op = "combined_search"
    /\ ret.raised = ""
    /\ ret.image = "imgT"
    /\ ret.text_query # NULL
    /\ Len(ret.value) >= 1
    /\ \E x \in screenshots : x.perceptual_hash = hashC

\* C19, the stored state: a record without fingerprint is returned by no
\* similarity search and is no image candidate of combined search, whatever
\* the query image and threshold; get_by_id returns it, the recency listing
\* holds it, and text search finds it by every token of its index entry.
C19_State ==
    \A x \in {r \in screenshots : r.perceptual_hash = NoHash} :
        /\ ret.op = "find_similar_images" =>
              \A i \in DOMAIN ret.value : ret.value[i].id # x.id
        /\ \A c \in Images, th \in SimilarityThresholds \cup {FZero} :
              compute_hash(c) # NoHash =>
                  x.id \notin Ids(Scored(compute_hash(c), th, NULL))
        /\ \A c \in Images : x.id \notin ImageCandidateIds(c, NULL)
        /\ get_by_id(x.id) = {x}
        /\ \A o \in get_recent(MaxSeq, NULL) : x \in Range(o)
        /\ \E f \in screenshots_fts :
              /\ f.rowid = x.id
              /\ \A q \in Tokens(f) :
                    x.id \in Ids(SearchRows(q, NoDate, NoDate, NULL))

\* C19, ingestion: add_screenshot raises only for a file that is no image
\* or for a storage name already taken, never for a missing fingerprint; a
\* successful call with new content commits the record and its index entry,
\* the record's fingerprint being that of the content or absent, and absent
\* for content that cannot be fingerprinted.
C19_Step ==
    ret'.op = "add_screenshot" =>
        LET c == ret'.content
            added == {x \in committed'.screenshots : x.id = ret'.value}
        IN /\ ret'.raised # "" =>
                 \/ ~IsImage(c)
                 \/ \E r \in screenshots : r.filename[1] = strftime(now)
           /\ (ret'.raised = "" /\ ~ret'.existing) =>
                 /\ Cardinality(added) = 1
                 /\ added \subseteq screenshots'
                 /\ \E f \in committed'.screenshots_fts : f.rowid = ret'.value
                 /\ \A x \in added :
                       /\ x.file_hash = calculate_file_hash(c)
                       /\ x.perceptual_hash \in {compute_hash(c), NoHash}
                       /\ compute_hash(c) = NoHash =>
                             x.perceptual_hash = NoHash

FingerprintOptional == []C19_State /\ [][C19_Step]_vars

\* a similarity search returned a record while the store holds a record of
\* an image that could not be fingerprinted
FingerprintOptionalWitness ==
    /\ ret.op = "find_similar_images"
    /\ ret.raised = ""
    /\ Len(ret.value) >= 1
    /\ \E x \in screenshots :
          /\ x.perceptual_hash = NoHash
          /\ x.file_hash = calculate_file_hash("imgT")

\* C20: add_screenshot of content that already has a record returns that
\* record's id and changes nothing: no file appears in or changes in the
\* storage directory, no record and no index entry is added or changed, and
\* nothing is written to the database file, whatever description and
\* compute_hash flag the call passes.
C20_Post(c) ==
    HasHash(screenshots, c) # {} =>
        /\ ret'.raised = ""
        /\ ret'.existing
        /\ ret'.value \in Ids(HasHash(screenshots, c))
        /\ UNCHANGED <<screenshots, screenshots_fts, search_history,
                       sqlite_sequence, committed, storage>>

ReingestIsNoOp ==
    [][ret'.op = "add_screenshot" => C20_Post(ret'.content)]_vars

\* content stored at an earlier second was ingested again with a description
\* other than the stored one
ReingestIsNoOpWitness ==
    /\ ret.op = "add_screenshot"
    /\ ret.raised = ""
    /\ ret.existing
    /\ \E x \in screenshots :
          /\ x.id = ret.value
          /\ x.description # ret.description
          /\ x.timestamp < now

\* C21: hamming_distance is symmetric, is zero exactly when its two
\* fingerprints are equal, and lies in 0..64 for every pair of 16-digit
\* fingerprints; with an argument that does not parse it returns 64 and
\* does not raise.
HammingDistanceMetric ==
    ret.op = "hamming_distance" =>
        /\ ret.raised = ""
        /\ ret.value \in 0..HashBits
        /\ ret.value = hamming_distance(ret.hash2, ret.hash1)
        /\ (ret.hash1 \in Fingerprints /\ ret.hash2 \in Fingerprints) =>
               (ret.value = 0 <=> ret.hash1 = ret.hash2)
        /\ (ret.hash1 \in Unparsable \/ ret.hash2 \in Unparsable) =>
               ret.value = HashBits

\* two different fingerprints were compared and differ in every bit
HammingDistanceMetricWitness ==
    /\ ret.op = "hamming_distance"
    /\ ret.hash1 \in Fingerprints
    /\ ret.hash2 \in Fingerprints
    /\ ret.hash1 # ret.hash2
    /\ ret.value = HashBits

\* the float a equals the fraction num / den
IsFraction(a, num, den) ==
    IF a.e >= 0 THEN a.m * 2^a.e * den = num
    ELSE a.m * den = num * 2^(0 - a.e)

\* C22: similarity_score(a, b) is 1 - distance(a, b)/64, lies in [0, 1], is
\* the same for (b, a), is smaller for every larger distance, and is
\* exactly 1.0 for a fingerprint and itself.
SimilarityScoreContract ==
    ret.op = "similarity_score" =>
        LET d == hamming_distance(ret.hash1, ret.hash2) IN
        /\ IsFraction(ret.value, HashBits - d, HashBits)
        /\ fge(ret.value, FZero)
        /\ fge(Float(1), ret.value)
        /\ ret.value = similarity_score(ret.hash2, ret.hash1)
        /\ \A k \in 0..HashBits :
               k > d => ~fge(score_of_distance(k), ret.value)
        /\ (ret.hash1 \in Fingerprints /\ ret.hash1 = ret.hash2) =>
               ret.value = Float(1)

\* two fingerprints 63 bits apart were scored
SimilarityScoreContractWitness ==
    /\ ret.op = "similarity_score"
    /\ ret.hash1 \in Fingerprints
    /\ hamming_distance(ret.hash1, ret.hash2) = HashBits - 1
    /\ fpos(ret.value)

\* C23_Rep(hashes, threshold)[j]: the path that represents path j when the
\* paths are taken in order and each joins the earliest representative it
\* is similar to, or represents itself
C23_Rep(hashes, threshold) ==
    LET Rep[j \in 1..Len(hashes)] ==
            LET c == {i \in 1..(j - 1) :
                         /\ Rep[i] = i
                         /\ fge(similarity_score(hashes[i], hashes[j]),
                                threshold)}
            IN IF c = {} THEN j ELSE CHOOSE i \in c : \A k \in c : i <= k
    IN Rep

\* C23: find_duplicate_groups is greedy and not transitive.  Taking the
\* paths in input order, each path joins the earliest representative it is
\* similar to, else becomes a representative; the result holds, in order
\* of representative, exactly the groups of two or more, each led by its
\* representative; groups are disjoint and every member is similar to its
\* group's first member.  For A, B, C with A~B, B~C and not A~C the result
\* is [[A, B]].
GreedyGrouping ==
    ret.op = "find_duplicate_groups" =>
        LET rep == C23_Rep(ret.hashes, ret.threshold)
            members(i) == {j \in DOMAIN rep : rep[j] = i}
            g == ret.value
        IN /\ \A n \in DOMAIN g :
                 /\ Len(g[n]) >= 2
                 /\ \A a, b \in DOMAIN g[n] : a < b => g[n][a] < g[n][b]
                 /\ Range(g[n]) = members(g[n][1])
                 /\ \A a \in DOMAIN g[n] :
                        fge(similarity_score(ret.hashes[g[n][1]],
                                             ret.hashes[g[n][a]]),
                            ret.threshold)
           /\ \A n, k \in DOMAIN g :
                 /\ n # k => Range(g[n]) \cap Range(g[k]) = {}
                 /\ n < k => g[n][1] < g[k][1]
           /\ \A i \in DOMAIN rep :
                 Cardinality(members(i)) >= 2 =>
                     \E n \in DOMAIN g : g[n][1] = i
           /\ (ret.hashes = <<hashA, hashC, hashD>>
                   /\ ret.threshold = Literal(7, 8)) => g = << <<1, 2>> >>

\* four paths A, B, C, D with A~B, B~C, C~D and A similar to neither C nor
\* D were grouped: two groups came back
GreedyGroupingWitness ==
    /\ ret.op = "find_duplicate_groups"
    /\ ret.hashes = <<hashA, hashC, hashD, hashD>>
    /\ ret.threshold = Literal(7, 8)
    /\ ret.value = << <<1, 2>>, <<3, 4>> >>

\* C25: delete_screenshot and cleanup_old_screenshots remove a record's
\* file before or together with committing the deletion of its row: in no
\* step does a row leave the database file while its stored file remains.
FileRemovedBeforeCommit ==
    [][\A r \in committed.screenshots \ committed'.screenshots :
           r.storage_path \notin DOMAIN storage']_vars

\* C26: search fails atomically: the audit-log row a raising search wrote
\* is never persisted, whatever the store handle does afterwards.
FailedSearchNeverPersisted ==
    \A i \in DOMAIN committed.search_history :
        committed.search_history[i].query # BadQuery

\* C27: a failed add_screenshot leaves no file behind: after it every file
\* in the storage directory is the stored file of exactly one record.
FailedInsertLeavesNoFile ==
    (ret.op = "add_screenshot" /\ ret.raised # "") =>
        \A p \in DOMAIN storage :
            Cardinality({r \in screenshots : r.storage_path = p}) = 1

\* C24: when two callers ingest the same content and both look for a
\* duplicate before either commits its insert, both calls succeed and
\* return the same id, and the content has one record and one index entry.
ConcurrentIngestSucceeds ==
    \A a, b \in Callers :
        (/\ a # b
         /\ callers[a].pc = "done"
         /\ callers[b].pc = "done"
         /\ callers[a].content = callers[b].content
         /\ ~callers[a].looked_up
         /\ ~callers[b].looked_up) =>
            /\ callers[a].raised = ""
            /\ callers[b].raised = ""
            /\ callers[a].value = callers[b].value
            /\ Cardinality(HasHash(committed.screenshots,
                                   callers[a].content)) = 1
            /\ Cardinality({f \in committed.screenshots_fts :
                   f.rowid \in Ids(HasHash(committed.screenshots,
                                           callers[a].content))}) = 1

\* the step is an add_screenshot call that created a record
C29_Created ==
    ret'.op = "add_screenshot" /\ ret'.raised = "" /\ ~ret'.existing

\* C29: record ids grow and are never used twice.  The id counter is at
\* least every id in the table and never goes down, and a newly created
\* record gets an id above the counter, which becomes the counter; so the
\* id is above every id created before, deleted or not, and content that is
\* ingested again after its record was deleted gets a new, larger id.
IdsNeverReused ==
    /\ [](Ids(screenshots) \subseteq 1..sqlite_sequence)
    /\ [][sqlite_sequence' >= sqlite_sequence]_vars
    /\ [][C29_Created =>
             /\ ret'.value > sqlite_sequence
             /\ ret'.value = sqlite_sequence'
             /\ Ids(screenshots') = Ids(screenshots) \cup {ret'.value}]_vars

\* record 1 was deleted (its index entry is still there) and the content
\* of its file, which is still in storage, was ingested again as record 2
IdsNeverReusedWitness ==
    /\ ret.op = "add_screenshot"
    /\ ret.raised = ""
    /\ ~ret.existing
    /\ ret.value = 2
    /\ Ids(screenshots) = {2}
    /\ 1 \in RowIds(screenshots_fts)
    /\ \E p \in DOMAIN storage :
          /\ storage[p] = ret.content
          /\ \A r \in screenshots : r.storage_path # p

\* C28: find_similar_images on the store returns only records whose
\* similarity to the query fingerprint is at least the threshold, each with
\* that similarity, in order of non-increasing similarity, no more than
\* limit of them, and with a region filter only records of that region.
StoreSimilaritySearch ==
    (ret.op = "find_similar_images" /\ ret.raised = "") =>
        LET v == ret.value IN
        /\ Len(v) <= ret.limit
        /\ \A n \in DOMAIN v :
              /\ \E r \in screenshots :
                    /\ r.id = v[n].id
                    /\ v[n].similarity =
                           similarity_score(ret.target, r.perceptual_hash)
                    /\ ret.region \notin {NULL, ""} => r.region = ret.region
              /\ fge(v[n].similarity, ret.threshold)
        /\ \A n, k \in DOMAIN v :
              n < k => /\ fge(v[n].similarity, v[k].similarity)
                       /\ v[n].id # v[k].id

\* two records of different similarity came back for a region filter
StoreSimilaritySearchWitness ==
    /\ ret.op = "find_similar_images"
    /\ ret.raised = ""
    /\ ret.region = "left"
    /\ Len(ret.value) = 2
    /\ ret.value[1].similarity # ret.value[2].similarity

\* the ids in the value of the last read
C30_ResultIds ==
    IF ret.raised # "" THEN {}
    ELSE IF ret.op \in {"search", "get_recent", "find_similar_images",
                        "combined_search"}
    THEN {ret.value[n].id : n \in DOMAIN ret.value}
    ELSE IF ret.op = "get_by_id" THEN Ids(ret.value)
    ELSE {}

\* C30: an id that delete_screenshot (returning true) or a sweep removed is
\* in no result of search, get_recent, get_by_id, find_similar_images or
\* combined_search afterwards, whatever the index still holds: every id in
\* a result is the id of a record, the removed ids have left the records,
\* and an id that has left the records never comes back.
DeletedNeverReturned ==
    /\ [](C30_ResultIds \subseteq Ids(screenshots))
    /\ [][(ret'.op = "delete_screenshot" /\ ret'.value = TRUE) =>
             ret'.screenshot_id \notin Ids(screenshots')]_vars
    /\ [][(ret'.op = "cleanup_old_screenshots" /\ ret'.raised = "") =>
             Ids(expired(ret'.days)) \cap Ids(screenshots') = {}]_vars
    /\ [][\A i \in 1..sqlite_sequence :
             i \notin Ids(screenshots) => i \notin Ids(screenshots')]_vars

\* record 1 is gone and its index entry is not; a text search that matches
\* that entry returned record 2
DeletedNeverReturnedWitness ==
    /\ ret.op = "search"
    /\ ret.raised = ""
    /\ 1 \notin Ids(screenshots)
    /\ \E f \in screenshots_fts : f.rowid = 1 /\ Match(f, ret.query)
    /\ C30_ResultIds = {2}

====
